---- MODULE Spec2Model ----
(***************************************************************************)
(* Popup widget plugin (plugins/popupWidget.ts) and the WYSIWYG editor     *)
(* that drives it (wysiwyg/wwEditor.ts, base.ts).                          *)
(*                                                                         *)
(* One editor handler runs at a time (single UI event loop).  A handler    *)
(* that dispatches a transaction walks through the statements of           *)
(* dispatchTransaction / PopupWidget.update one at a time (variable pc);   *)
(* no other handler starts until pc is back to "idle".                     *)
(*                                                                         *)
(* The document is modelled as a flat sequence of characters and a         *)
(* position as an offset 0..Len(doc) into it; view.coordsAtPos and the     *)
(* layout height of an element are answers of the browser, drawn from      *)
(* small sets.                                                             *)
(***************************************************************************)
EXTENDS Integers, Sequences, FiniteSets, TLC

\* ---------------------------------------------------------------- bounds
MaxDocLen == 1
MaxDestroyCalls == 2

\* ---------------------------------------------------------------- domains
Nodes == {"n1", "n2"}
None == "none"
WidgetStyles == {"top", "bottom"}
Alphabet == {"a"}
CoordSet == {[top |-> 100, left |-> 50, bottom |-> 120],
             [top |-> 10, left |-> 0, bottom |-> 25]}
HeightSet == {30, 45}
NoCoords == [top |-> 0, left |-> 0, bottom |-> 0]

\* `${n}px`
Px(n) == <<n, "px">>
Unset == <<>>

NoStyle == [position |-> "", left |-> Unset, top |-> Unset, opacity |-> ""]

NullState == [kind |-> "null", pos |-> 0, node |-> None, style |-> ""]
UndefinedState == [kind |-> "undefined", pos |-> 0, node |-> None, style |-> ""]
Widget(pos, node, st) == [kind |-> "widget", pos |-> pos, node |-> node, style |-> st]

Min(a, b) == IF a <= b THEN a ELSE b
Max(a, b) == IF a <= b THEN b ELSE a

VARIABLES
  popup,            \* PopupWidget.popup
  body,             \* children of document.body appended by the plugin
  style,            \* node.style of every widget element
  renderedHeight,   \* layout height of every element once attached
  pluginState,      \* pluginKey.getState(view.state)
  doc,              \* view.state.doc
  selection,        \* <<from, to>> of view.state.selection
  focused,          \* view.dom has input focus
  listening,        \* 'blur' listener removeWidget registered on view.dom
  destroyCalls,     \* number of times destroy has run
  threw,            \* a DOM call of the plugin raised an exception
  pc,               \* position inside the running handler
  docChanged,       \* tr.docChanged of the transaction in flight
  coords,           \* result of view.coordsAtPos in update
  log,              \* events emitted on eventEmitter by the running handler
  lastOp,           \* handler that is running or ran last
  shownBefore,      \* a widget was materialized when the handler started
  popupFocusCalls   \* view.focus() calls made by update in this handler

vars == <<popup, body, style, renderedHeight, pluginState, doc, selection,
          focused, listening, destroyCalls, threw, pc, docChanged, coords, log,
          lastOp, shownBefore, popupFocusCalls>>

dom == <<popup, body, style, threw>>
\* the view has been destroyed
destroyed == destroyCalls > 0
editorState == <<pluginState, doc, selection>>

\* ---------------------------------------------------------------- plugin state
\* state.init()
init == NullState

\* variant of apply: a transaction without 'widget' meta keeps the request
apply_KeepPrevious(meta) == IF meta = <<>> THEN pluginState ELSE meta[1]

\* state.apply(tr): tr.getMeta('widget'); meta is <<>> when the transaction
\* carries no 'widget' meta (getMeta returns undefined), else <<value>>
apply(meta) == IF meta = <<>> THEN UndefinedState ELSE meta[1]

\* ---------------------------------------------------------------- Init
\* State after `new WysiwygEditor(...)`: plugin state init() is null, the
\* PopupWidget constructor has registered the blur listener.
Init ==
  /\ popup = None
  /\ body = {}
  /\ style = [n \in Nodes |-> NoStyle]
  /\ renderedHeight \in [Nodes -> HeightSet]
  /\ pluginState = init
  /\ doc = <<>>
  /\ selection = <<0, 0>>
  /\ focused = FALSE
  /\ listening = TRUE
  /\ destroyCalls = 0
  /\ threw = FALSE
  /\ pc = "idle"
  /\ docChanged = FALSE
  /\ coords = NoCoords
  /\ log = <<>>
  /\ lastOp = "init"
  /\ shownBefore = FALSE
  /\ popupFocusCalls = 0

\* ---------------------------------------------------------------- DOM helpers
\* variant of clientHeight: the height is read from this.popup, which is
\* not yet set when update measures
clientHeight_Detached(n) == IF n = popup THEN renderedHeight[n] ELSE 0

\* node.clientHeight: 0 while the element is not laid out
clientHeight(n) == IF n \in body THEN renderedHeight[n] ELSE 0

\* style === 'bottom' ? top + height : top - node.clientHeight - height
FinalTop(st, c, contentHeight) ==
  LET height == c.bottom - c.top
  IN IF st = "bottom" THEN c.top + height ELSE c.top - contentHeight - height

\* variant of removeWidget: forgets the element without detaching it
removeWidget_KeepAttached ==
  /\ popup' = None
  /\ UNCHANGED <<body, threw>>

\* variant of removeWidget: no `if (this.popup)` guard, removeChild(null) throws
removeWidget_NoGuard ==
  IF popup \in body
  THEN /\ body' = body \ {popup}
       /\ popup' = None
       /\ threw' = threw
  ELSE /\ threw' = TRUE
       /\ UNCHANGED <<popup, body>>

\* variant of removeWidget: detaches the element but keeps this.popup
removeWidget_KeepReference ==
  /\ body' = body \ {popup}
  /\ UNCHANGED <<popup, threw>>

\* PopupWidget.removeWidget
removeWidget ==
  IF popup # None
  THEN IF popup \in body
       THEN /\ body' = body \ {popup}
            /\ popup' = None
            /\ threw' = threw
       ELSE /\ threw' = TRUE     \* removeChild: NotFoundError
            /\ UNCHANGED <<popup, body>>
  ELSE UNCHANGED <<popup, body, threw>>

\* view.focus(): the DOM 'focus' event fires when focus actually moves and
\* the listener of initEvent re-emits it.
viewFocus ==
  /\ focused' = TRUE
  /\ log' = IF focused THEN log ELSE Append(log, "focus")

\* ---------------------------------------------------------------- handlers
\* Start of view.dispatch(tr): applyTransaction + view.updateState set the new
\* state; the plugin views are updated next.
Begin(op, meta, newDoc, newSel, changed) ==
  /\ pc = "idle"
  /\ ~destroyed
  /\ pluginState' = apply(meta)
  /\ doc' = newDoc
  /\ selection' = newSel
  /\ docChanged' = changed
  /\ coords' = NoCoords
  /\ log' = <<>>
  /\ lastOp' = op
  /\ shownBefore' = (popup # None)
  /\ popupFocusCalls' = 0
  /\ pc' = "remove"
  /\ UNCHANGED <<popup, body, style, renderedHeight, focused, listening,
                 destroyCalls, threw>>

\* WysiwygEditor.addWidget(node, style, pos?): pos ?? state.selection.to.
\* Only positions inside the document are passed (coordsAtPos needs one).
addWidget ==
  \E node \in Nodes, st \in WidgetStyles, pos \in {<<>>} \cup {<<p>> : p \in 0..Len(doc)} :
    Begin("addWidget",
          <<Widget(IF pos = <<>> THEN selection[2] ELSE pos[1], node, st)>>,
          doc, selection, FALSE)

\* WysiwygEditor.setSelection(start, end)
setSelection ==
  \E start \in 0..Len(doc), end \in 0..Len(doc) :
    Begin("setSelection", <<>>, doc,
          <<Min(start, end), Max(start, end)>>, FALSE)

\* WysiwygEditor.replaceSelection(content, start?, end?): replaceRange when
\* both start and end are numbers, else replaceSelection; the selection is
\* mapped through the replacement.  The transaction always has a step.
replaceSelection ==
  \E content \in Alphabet,
     range \in {<<>>} \cup {<<s, e>> : s \in 0..Len(doc), e \in 0..Len(doc)} :
    LET given == range # <<>>
        s == IF given THEN Min(range[1], range[2]) ELSE selection[1]
        e == IF given THEN Max(range[1], range[2]) ELSE selection[2]
        newDoc == SubSeq(doc, 1, s) \o <<content>> \o SubSeq(doc, e + 1, Len(doc))
        map(p) == IF p <= s THEN p ELSE IF p >= e THEN p - (e - s) + 1 ELSE s + 1
        newSel == IF given THEN <<map(selection[1]), map(selection[2])>>
                  ELSE <<s + 1, s + 1>>
    IN /\ Len(newDoc) <= MaxDocLen
       /\ Begin("replaceSelection", <<>>, newDoc, newSel, TRUE)

\* PopupWidget.update, line 34: this.removeWidget(); line 36: if (widget)
updateRemove ==
  /\ pc = "remove"
  /\ removeWidget
  /\ pc' = IF threw' THEN "idle"
           ELSE IF pluginState.kind = "widget" THEN "coords" ELSE "emit"
  /\ UNCHANGED <<style, renderedHeight, editorState, focused, listening,
                 destroyCalls, docChanged, coords, log, lastOp, shownBefore,
                 popupFocusCalls>>

\* line 38: view.coordsAtPos(widget.pos)
updateCoords ==
  /\ pc = "coords"
  /\ \E c \in CoordSet : coords' = c
  /\ pc' = "style"
  /\ UNCHANGED <<dom, renderedHeight, editorState, focused, listening,
                 destroyCalls, docChanged, log, lastOp, shownBefore,
                 popupFocusCalls>>

\* variant of updateStyle: opacity '0' is not applied before the attach
updateStyle_Visible ==
  /\ pc = "style"
  /\ style' = [style EXCEPT ![pluginState.node] =
                 [@ EXCEPT !.position = "absolute",
                           !.left = Px(coords.left)]]
  /\ pc' = "append"
  /\ UNCHANGED <<popup, body, threw, renderedHeight, editorState, focused,
                 listening, destroyCalls, docChanged, coords, log, lastOp,
                 shownBefore, popupFocusCalls>>

\* line 41: css(node, { position: 'absolute', left, opacity: '0' })
updateStyle ==
  /\ pc = "style"
  /\ style' = [style EXCEPT ![pluginState.node] =
                 [@ EXCEPT !.position = "absolute",
                           !.left = Px(coords.left),
                           !.opacity = "0"]]
  /\ pc' = "append"
  /\ UNCHANGED <<popup, body, threw, renderedHeight, editorState, focused,
                 listening, destroyCalls, docChanged, coords, log, lastOp,
                 shownBefore, popupFocusCalls>>

\* line 42: document.body.appendChild(node)
updateAppend ==
  /\ pc = "append"
  /\ body' = body \cup {pluginState.node}
  /\ pc' = "top"
  /\ UNCHANGED <<popup, style, threw, renderedHeight, editorState, focused,
                 listening, destroyCalls, docChanged, coords, log, lastOp,
                 shownBefore, popupFocusCalls>>

\* lines 43-44: the argument of css is evaluated (clientHeight is read) and
\* the first key, top, is applied
updateTop ==
  /\ pc = "top"
  /\ style' = [style EXCEPT ![pluginState.node].top =
                 Px(FinalTop(pluginState.style, coords,
                             clientHeight(pluginState.node)))]
  /\ pc' = "opacity"
  /\ UNCHANGED <<popup, body, threw, renderedHeight, editorState, focused,
                 listening, destroyCalls, docChanged, coords, log, lastOp,
                 shownBefore, popupFocusCalls>>

\* line 45: the second key, opacity: '1'
updateOpacity ==
  /\ pc = "opacity"
  /\ style' = [style EXCEPT ![pluginState.node].opacity = "1"]
  /\ pc' = "record"
  /\ UNCHANGED <<popup, body, threw, renderedHeight, editorState, focused,
                 listening, destroyCalls, docChanged, coords, log, lastOp,
                 shownBefore, popupFocusCalls>>

\* line 47: this.popup = node
updateRecord ==
  /\ pc = "record"
  /\ popup' = pluginState.node
  /\ pc' = "focus"
  /\ UNCHANGED <<body, style, threw, renderedHeight, editorState, focused,
                 listening, destroyCalls, docChanged, coords, log, lastOp,
                 shownBefore, popupFocusCalls>>

\* variant of updateFocus: update returns without view.focus()
updateFocus_Skipped ==
  /\ pc = "focus"
  /\ pc' = "emit"
  /\ UNCHANGED <<dom, renderedHeight, editorState, focused, listening,
                 destroyCalls, docChanged, coords, log, lastOp, shownBefore,
                 popupFocusCalls>>

\* line 48: view.focus()
updateFocus ==
  /\ pc = "focus"
  /\ viewFocus
  /\ popupFocusCalls' = popupFocusCalls + 1
  /\ pc' = "emit"
  /\ UNCHANGED <<dom, renderedHeight, editorState, listening, destroyCalls,
                 docChanged, coords, lastOp, shownBefore>>

\* variant of emitChangeEvent: 'change' is emitted for every transaction
emitChangeEvent_Always ==
  /\ pc = "emit"
  /\ log' = log \o <<"caretChange", "change">>
  /\ pc' = IF lastOp = "replaceSelection" THEN "editorFocus" ELSE "idle"
  /\ UNCHANGED <<dom, renderedHeight, editorState, focused, listening,
                 destroyCalls, docChanged, coords, lastOp, shownBefore,
                 popupFocusCalls>>

\* EditorBase.emitChangeEvent(tr), called last by dispatchTransaction
emitChangeEvent ==
  /\ pc = "emit"
  /\ log' = IF docChanged THEN log \o <<"caretChange", "change">>
            ELSE Append(log, "caretChange")
  /\ pc' = IF lastOp = "replaceSelection" THEN "editorFocus" ELSE "idle"
  /\ UNCHANGED <<dom, renderedHeight, editorState, focused, listening,
                 destroyCalls, docChanged, coords, lastOp, shownBefore,
                 popupFocusCalls>>

\* EditorBase.focus() body: view.focus(); emit('focus')
editorFocusBody ==
  /\ focused' = TRUE
  /\ log' = (IF focused THEN log ELSE Append(log, "focus")) \o <<"focus">>

\* this.focus() at the end of replaceSelection
replaceSelectionFocus ==
  /\ pc = "editorFocus"
  /\ editorFocusBody
  /\ pc' = "idle"
  /\ UNCHANGED <<dom, renderedHeight, editorState, listening, destroyCalls,
                 docChanged, coords, lastOp, shownBefore, popupFocusCalls>>

\* EditorBase.focus() called by the application
focus ==
  /\ pc = "idle"
  /\ ~destroyed
  /\ focused' = TRUE
  /\ log' = (IF focused THEN <<>> ELSE <<"focus">>) \o <<"focus">>
  /\ lastOp' = "focus"
  /\ shownBefore' = (popup # None)
  /\ popupFocusCalls' = 0
  /\ UNCHANGED <<dom, renderedHeight, editorState, listening, destroyCalls,
                 pc, docChanged, coords>>

\* DOM 'blur' event on view.dom: the listeners run in registration order,
\* removeWidget (PopupWidget constructor) then the re-emit of initEvent.
onBlur ==
  /\ pc = "idle"
  /\ ~destroyed
  /\ focused
  /\ focused' = FALSE
  /\ IF listening THEN removeWidget ELSE UNCHANGED <<popup, body, threw>>
  /\ log' = <<"blur">>
  /\ lastOp' = "onBlur"
  /\ shownBefore' = (popup # None)
  /\ popupFocusCalls' = 0
  /\ UNCHANGED <<style, renderedHeight, editorState, listening, destroyCalls,
                 pc, docChanged, coords>>

\* variant of popupDestroy: detaches this.popup without checking it
popupDestroy_Unguarded ==
  /\ listening' = FALSE
  /\ IF popup \in body
     THEN body' = body \ {popup} /\ threw' = threw
     ELSE threw' = TRUE /\ body' = body
  /\ UNCHANGED <<popup, style>>

\* PopupWidget.destroy
popupDestroy ==
  /\ listening' = FALSE
  /\ UNCHANGED <<popup, body, style, threw>>

\* EditorBase.destroy -> view.destroy() -> PopupWidget.destroy.  The plugin
\* views are destroyed before view.dom is detached, so whether or not the
\* browser fires 'blur' for the detached element, removeWidget is no longer
\* registered; the listener of initEvent still is.  The action stays enabled
\* after the first call: a later call is PopupWidget.destroy called again.
destroy ==
  /\ pc = "idle"
  /\ popupDestroy
  /\ destroyCalls < MaxDestroyCalls
  /\ destroyCalls' = destroyCalls + 1
  /\ focused' = FALSE
  /\ \E fired \in BOOLEAN :
       log' = IF focused /\ fired THEN <<"blur">> ELSE <<>>
  /\ lastOp' = "destroy"
  /\ shownBefore' = (popup # None)
  /\ popupFocusCalls' = 0
  /\ UNCHANGED <<renderedHeight, editorState, pc, docChanged, coords>>

Next ==
  \/ addWidget
  \/ setSelection
  \/ replaceSelection
  \/ updateRemove
  \/ updateCoords
  \/ updateStyle
  \/ updateAppend
  \/ updateTop
  \/ updateOpacity
  \/ updateRecord
  \/ updateFocus
  \/ emitChangeEvent
  \/ replaceSelectionFocus
  \/ focus
  \/ onBlur
  \/ destroy

Spec == Init /\ [][Next]_vars

TypeOK ==
  /\ popup \in Nodes \cup {None}
  /\ body \subseteq Nodes
  /\ pc \in {"idle", "remove", "coords", "style", "append", "top", "opacity",
             "record", "focus", "emit", "editorFocus"}
  /\ Len(doc) <= MaxDocLen
  /\ selection[1] <= selection[2] /\ selection[2] <= Len(doc)

\* ---------------------------------------------------------------- properties
IsDispatch(op) == op \in {"addWidget", "setSelection", "replaceSelection"}
Requested == pluginState.kind = "widget"

\* the plugin view has observed the current state: the requested widget is
\* materialized, or none is
Observed ==
  IF Requested THEN popup = pluginState.node /\ popup \in body
  ELSE popup = None /\ body = {}

\* placement the claims expect for the current request
ExpectedTop ==
  IF pluginState.style = "bottom" THEN coords.bottom
  ELSE coords.top - renderedHeight[pluginState.node] - (coords.bottom - coords.top)

\* C1: after destroy the blur hook is removed and no widget is materialized:
\* this.popup is unset and nothing is left attached to document.body.
C1_TeardownClears ==
  lastOp = "destroy" => (~listening /\ popup = None /\ body = {})

\* C2: at most one element is attached to document.body at any time; when no
\* handler is running an attached element is the element of the most recent
\* request; an element is attached only to an overlay the previous element
\* has already left.
C2_SingleWidget ==
  /\ [](Cardinality(body) <= 1)
  /\ [](pc = "idle" /\ body # {} => Requested /\ body = {pluginState.node})
  /\ [][~(body' \subseteq body) => body = {}]_vars

C2_Witness ==
  /\ pc = "idle" /\ lastOp = "addWidget" /\ shownBefore
  /\ popup = "n1" /\ body = {"n1"}
  /\ style["n2"] = NoStyle

\* C3 as stated: a transaction that neither requests nor clears a widget
\* (setSelection, replaceSelection) leaves a materialized widget attached.
C3_Original ==
  (pc = "idle" /\ lastOp \in {"setSelection", "replaceSelection"} /\ shownBefore)
    => (popup # None /\ popup \in body)

\* C3 amended: addWidget materializes the requested element in the same
\* dispatch; a materialized widget goes away only in the teardown step of a
\* state observation or on blur; a transaction that carries no widget request
\* (setSelection, replaceSelection) clears the widget.
C3_Lifetime ==
  /\ [](pc = "idle" /\ lastOp = "addWidget"
          => popup = pluginState.node /\ popup \in body)
  /\ [](pc = "idle" /\ lastOp \in {"setSelection", "replaceSelection"}
          => ~Requested /\ popup = None /\ body = {})
  /\ [][popup # None /\ popup' # popup
          => pc = "remove" \/ (pc = "idle" /\ lastOp' = "onBlur")]_vars

C3_Witness ==
  /\ pc = "idle" /\ lastOp = "replaceSelection" /\ shownBefore
  /\ popup = None /\ body = {}

\* C4: the blur listener detaches a materialized widget and unsets
\* this.popup; with no widget it changes nothing; it never throws.
C4_FocusLossClears ==
  [][(pc = "idle" /\ focused /\ ~focused' /\ lastOp' = "onBlur")
       => /\ popup' = None
          /\ ~threw'
          /\ style' = style
          /\ popup # None => (popup \in body /\ body' = body \ {popup})
          /\ popup = None => body' = body]_vars

C4_Witness ==
  /\ lastOp = "onBlur" /\ shownBefore /\ popup = None /\ body = {} /\ ~threw

\* C5: a state observation with no request (plugin state null or undefined)
\* ends with no widget: the element is detached, this.popup is unset, and
\* during that observation nothing is attached or restyled.
C5_ClearOnNone ==
  /\ [](pc = "idle" /\ IsDispatch(lastOp) /\ ~Requested
          => popup = None /\ body = {} /\ ~threw)
  /\ [][pc # "idle" /\ ~Requested
          => style' = style /\ body' \subseteq body /\ popup' = None]_vars

C5_Witness ==
  /\ pc = "idle" /\ lastOp = "setSelection" /\ shownBefore
  /\ pluginState.kind = "undefined" /\ popup = None /\ body = {}

\* C6: once the top has been applied the element carries left = left and
\* top = bottom for style 'bottom', top - contentHeight - (bottom - top)
\* otherwise, contentHeight being the height of the attached element
\* (top=100, bottom=120, contentHeight=30: 120 below, 50 above).
C6_Placement ==
  (Requested /\ pc \in {"opacity", "record", "focus", "emit", "editorFocus", "idle"})
    => LET n == pluginState.node
       IN /\ style[n].left = Px(coords.left)
          /\ style[n].top = Px(ExpectedTop)
          /\ (coords.top = 100 /\ coords.bottom = 120 /\ renderedHeight[n] = 30)
               => style[n].top = IF pluginState.style = "bottom"
                                 THEN <<120, "px">> ELSE <<50, "px">>

C6_Witness ==
  /\ pc = "idle" /\ popup = "n1" /\ pluginState.style = "top"
  /\ coords = [top |-> 100, left |-> 50, bottom |-> 120]
  /\ renderedHeight["n1"] = 30
  /\ style["n1"].top = <<50, "px">> /\ style["n1"].left = <<50, "px">>

\* C8: inside update the overlay is empty until the attach, the element is
\* attached with opacity 0, and after the teardown step an attached element
\* with opacity 1 is the requested one, positioned absolutely at its final top.
C8_TwoPhaseReveal ==
  /\ pc \in {"coords", "style", "append"} => body = {}
  /\ pc \in {"top", "opacity"}
       => /\ body = {pluginState.node}
          /\ style[pluginState.node].opacity = "0"
          /\ style[pluginState.node].left = Px(coords.left)
  /\ pc # "remove"
       => \A n \in body : style[n].opacity = "1"
            => /\ Requested /\ n = pluginState.node
               /\ style[n].position = "absolute"
               /\ style[n].top = Px(ExpectedTop)

\* a reused element is attached while it still carries the top of an earlier
\* display
C8_Witness ==
  /\ pc = "top"
  /\ pluginState.node \in body
  /\ style[pluginState.node].top # Unset
  /\ style[pluginState.node].top # Px(ExpectedTop)
  /\ style[pluginState.node].opacity = "0"

\* C9: update calls view.focus() once, as its last statement and after
\* this.popup is set, exactly when a widget is requested; the view is focused
\* when addWidget returns; the blur listener never focuses.
C9_FocusReturn ==
  /\ [](pc = "idle" /\ IsDispatch(lastOp)
          => popupFocusCalls = IF Requested THEN 1 ELSE 0)
  /\ [](pc = "idle" /\ lastOp = "addWidget" => focused /\ popup = pluginState.node)
  /\ [](lastOp = "onBlur" => popupFocusCalls = 0 /\ ~focused)
  /\ [][popupFocusCalls' > popupFocusCalls
          => popup = pluginState.node /\ pc' = "emit" /\ focused']_vars

C9_Witness ==
  /\ pc = "idle" /\ lastOp = "addWidget" /\ popupFocusCalls = 1 /\ focused
  /\ popup = "n2" /\ log = <<"focus", "caretChange">>

\* C7: destroy never throws, and a destroy after the first changes neither
\* the plugin view nor document.body, also when the widget was cleared before.
C7_IdempotentTeardown ==
  /\ [](lastOp = "destroy" => ~threw /\ ~listening)
  /\ [][(destroyCalls' > destroyCalls /\ destroyCalls > 0)
          => UNCHANGED <<popup, body, style, listening, threw, pluginState>>]_vars

C7_Witness ==
  /\ destroyCalls = 2 /\ lastOp = "destroy" /\ popup = None /\ body = {}
  /\ style["n1"].opacity = "1"

EmittedChanges == SelectSeq(log, LAMBDA e : e \in {"caretChange", "change"})

\* C10: every event of a dispatch is emitted after the plugin view observed
\* the new state; a finished dispatch emitted caretChange once, followed by
\* change iff tr.docChanged; addWidget emits no change and leaves document
\* and selection as they were.
C10_EventOrder ==
  /\ [](pc = "idle" /\ IsDispatch(lastOp)
          => EmittedChanges = IF docChanged THEN <<"caretChange", "change">>
                              ELSE <<"caretChange">>)
  /\ [](lastOp = "addWidget" => ~docChanged /\ EmittedChanges \in {<<>>, <<"caretChange">>})
  /\ [][pc # "idle" /\ Len(log') > Len(log) => Observed]_vars
  /\ [][(pc # "idle" \/ lastOp' = "addWidget")
          => doc' = doc /\ selection' = selection]_vars

C10_Witness ==
  /\ pc = "idle" /\ lastOp = "addWidget" /\ log = <<"caretChange">>
  /\ doc = <<"a">> /\ selection = <<0, 1>> /\ popup # None
====
